---------------------------- MODULE Spec2Model ----------------------------
(***************************************************************************)
(* Model of the sino calculator (src/src/main.rs): a recursive-descent     *)
(* parser that drives an LLVM builder, wraps the value in a nullary        *)
(* function, verifies it, JIT-compiles it and calls it, under a REPL       *)
(* driver that reads one line at a time.                                   *)
(*                                                                         *)
(* Characters are one-character strings, a line is a sequence of them.     *)
(* A 64-bit value is its bit pattern, kept as eight base-256 limbs, least  *)
(* significant first (TLC's integers are narrower than 64 bits).           *)
(***************************************************************************)
EXTENDS Integers, Sequences, FiniteSets, TLC

(***************************************************************************)
(* 64-bit arithmetic on bit patterns: the instructions the builder emits   *)
(* (add, sub, mul, udiv on i64) and the literal conversions.               *)
(***************************************************************************)
BitWidth == 64

NLimbs == BitWidth \div 8

Radix == 2 ^ 8

U64 == [1..NLimbs -> 0..(Radix - 1)]

Zero64 == [i \in 1..NLimbs |-> 0]

\* A small number as a 64-bit pattern (n < 2^31).
FromNat(n) == [i \in 1..NLimbs |-> IF i <= 4 THEN (n \div (Radix ^ (i - 1))) % Radix ELSE 0]

\* One's complement.
Not64(a) == [i \in 1..NLimbs |-> (Radix - 1) - a[i]]

\* a + b + cin over Len(a) limbs, as Len(a) + 1 limbs (the last is the carry out).
AddWide(a, b, cin) ==
    LET n == Len(a)
        c[i \in 1..(n + 1)] == IF i = 1 THEN cin ELSE (a[i - 1] + b[i - 1] + c[i - 1]) \div Radix
    IN  [i \in 1..(n + 1) |-> IF i <= n THEN (a[i] + b[i] + c[i]) % Radix ELSE c[i]]

\* add i64: the sum modulo 2^64.
WrapAdd(a, b) == SubSeq(AddWide(a, b, 0), 1, NLimbs)

\* sub i64: the difference modulo 2^64.
WrapSub(a, b) == SubSeq(AddWide(a, Not64(b), 1), 1, NLimbs)

RECURSIVE ColSum(_, _, _, _)
\* Sum of a[i] * b[k + 1 - i] for i in 1..j: column k of the schoolbook product.
ColSum(a, b, k, j) == IF j = 0 THEN 0 ELSE a[j] * b[k + 1 - j] + ColSum(a, b, k, j - 1)

\* mul i64: the product modulo 2^64.
WrapMul(a, b) ==
    LET t[k \in 0..NLimbs] == IF k = 0 THEN 0 ELSE ColSum(a, b, k, k) + (t[k - 1] \div Radix)
    IN  [k \in 1..NLimbs |-> t[k] % Radix]

RECURSIVE GeFrom(_, _, _)
\* a >= b as unsigned numbers, comparing limbs i, i-1, ..., 1.
GeFrom(a, b, i) ==
    IF i = 0 THEN TRUE
    ELSE IF a[i] # b[i] THEN a[i] > b[i]
    ELSE GeFrom(a, b, i - 1)

GeU(a, b) == GeFrom(a, b, Len(a))

BitOf(a, n) == (a[(n \div 8) + 1] \div (2 ^ (n % 8))) % 2

\* The division works on 16-bit limbs: the remainder needs 65 bits, five limbs.
Wide == 2 ^ 16

ToWide(a) == [i \in 1..5 |-> IF i = 5 THEN 0 ELSE a[2 * i - 1] + Radix * a[2 * i]]

RECURSIVE DoubleFrom(_, _, _)
\* 2 * r + c from limb i upwards (the result fits: r is below the divisor).
DoubleFrom(r, i, c) ==
    IF i > Len(r) THEN <<>>
    ELSE LET s == 2 * r[i] + c IN <<s % Wide>> \o DoubleFrom(r, i + 1, s \div Wide)

RECURSIVE MinusFrom(_, _, _, _)
\* a - b - borrow from limb i upwards, for a >= b.
MinusFrom(a, b, i, borrow) ==
    IF i > Len(a) THEN <<>>
    ELSE LET s == a[i] - b[i] - borrow
         IN  <<s % Wide>> \o MinusFrom(a, b, i + 1, IF s < 0 THEN 1 ELSE 0)

\* One step of restoring long division: bit k of the dividend n is shifted into the
\* remainder st.r, the divisor d is subtracted when it fits, and the quotient bit is
\* appended to st.bits (most significant first).
DivStep(n, d, k, st) ==
    LET r2 == DoubleFrom(st.r, 1, BitOf(n, k))
        ge == GeU(r2, d)
    IN  [r |-> IF ge THEN MinusFrom(r2, d, 1, 0) ELSE r2,
         bits |-> Append(st.bits, IF ge THEN 1 ELSE 0)]

RECURSIVE DivBits(_, _, _, _, _)
\* The division steps for bits hi down to lo of the dividend, from state st. The
\* range is halved rather than walked bit by bit, and the state after the upper
\* half is bound as a value before the lower half starts: both keep TLC's
\* evaluation shallow, neither changes the result.
DivBits(n, d, hi, lo, st) ==
    IF hi = lo THEN DivStep(n, d, hi, st)
    ELSE LET mid == (hi + lo + 1) \div 2
         IN  CHOOSE out \in {DivBits(n, d, mid - 1, lo, half) : half \in {DivBits(n, d, hi, mid, st)}} : TRUE

\* The limbs of a number given by its 64 bits, most significant first.
FromBits(bits) ==
    LET bit(k) == bits[BitWidth - k]
    IN  [i \in 1..NLimbs |->
            bit(8 * i - 8) + 2 * bit(8 * i - 7) + 4 * bit(8 * i - 6) + 8 * bit(8 * i - 5)
            + 16 * bit(8 * i - 4) + 32 * bit(8 * i - 3) + 64 * bit(8 * i - 2) + 128 * bit(8 * i - 1)]

\* a divided by a positive k below 2^16, limb by limb.
ShortDiv(a, k) ==
    LET r[i \in 1..(NLimbs + 1)] == IF i = NLimbs + 1 THEN 0 ELSE (r[i + 1] * Radix + a[i]) % k
    IN  [i \in 1..NLimbs |-> (r[i + 1] * Radix + a[i]) \div k]

\* udiv i64: the quotient of the two bit patterns read as unsigned numbers (b # 0):
\* zero when a < b, short division by a divisor of two limbs, else long division.
UDiv64(a, b) ==
    IF ~GeU(a, b) THEN Zero64
    ELSE IF b # Zero64 /\ \A i \in 3..NLimbs : b[i] = 0 THEN ShortDiv(a, b[1] + Radix * b[2])
    ELSE FromBits(DivBits(a, ToWide(b), BitWidth - 1, 0, [r |-> ToWide(Zero64), bits |-> <<>>]).bits)

\* The sign bit of the pattern read as a signed 64-bit integer.
IsNeg(a) == a[NLimbs] >= Radix \div 2

\* Two's-complement negation.
Neg64(a) == WrapSub(Zero64, a)

\* sdiv i64 (truncating signed division); the instruction the code does not use.
SDiv64(a, b) ==
    LET q == UDiv64(IF IsNeg(a) THEN Neg64(a) ELSE a, IF IsNeg(b) THEN Neg64(b) ELSE b)
    IN  IF IsNeg(a) # IsNeg(b) THEN Neg64(q) ELSE q

(***************************************************************************)
(* Characters, whitespace and the literal conversions.                     *)
(***************************************************************************)
DigitChars == <<"0", "1", "2", "3", "4", "5", "6", "7", "8", "9">>

\* char::is_ascii_digit
IsAsciiDigit(c) == \E d \in 1..10 : DigitChars[d] = c

DigitVal(c) == (CHOOSE d \in 1..10 : DigitChars[d] = c) - 1

\* char::is_whitespace, on the whitespace characters a line can hold.
IsWhitespace(c) == c \in {" ", "\t", "\n", "\r"}

RECURSIVE skip_blanks(_)
\* Skipping that stops at every character but the blank.
skip_blanks(chars) ==
    IF chars # <<>> /\ Head(chars) = " " THEN skip_blanks(Tail(chars)) ELSE chars

RECURSIVE skip_whitespace(_)
\* The iterator after skip_whitespace: the longest suffix not starting with whitespace.
skip_whitespace(chars) ==
    IF chars # <<>> /\ IsWhitespace(Head(chars)) THEN skip_whitespace(Tail(chars)) ELSE chars

\* The digits and operators, without the parentheses.
is_digit_or_operator(c) == IsAsciiDigit(c) \/ c = "+" \/ c = "-" \/ c = "*" \/ c = "/"

is_valid_char(c) == IsAsciiDigit(c) \/ c = "+" \/ c = "-" \/ c = "*" \/ c = "/" \/ c = "(" \/ c = ")"

RECURSIVE TrimEnd(_)
TrimEnd(s) == IF s # <<>> /\ IsWhitespace(s[Len(s)]) THEN TrimEnd(SubSeq(s, 1, Len(s) - 1)) ELSE s

\* str::trim
Trim(s) == TrimEnd(skip_whitespace(s))

\* The letters of the two exit words, for eq_ignore_ascii_case.
ToAsciiLower(c) ==
    CASE c = "E" -> "e" [] c = "X" -> "x" [] c = "I" -> "i" [] c = "T" -> "t"
      [] c = "Q" -> "q" [] c = "U" -> "u" [] OTHER -> c

IsExitWord(s) ==
    LET low == [i \in 1..Len(s) |-> ToAsciiLower(s[i])]
    IN  low = <<"e", "x", "i", "t">> \/ low = <<"q", "u", "i", "t">>

RECURSIVE DigitRun(_)
\* The maximal run of ASCII digits at the front of the iterator.
DigitRun(chars) ==
    IF chars # <<>> /\ IsAsciiDigit(Head(chars)) THEN <<Head(chars)>> \o DigitRun(Tail(chars)) ELSE <<>>

RECURSIVE MulSmallFrom(_, _, _, _)
\* Limbs i onwards of a * k, with carry coming in, and the carry out as last limb.
MulSmallFrom(a, k, i, carry) ==
    IF i > Len(a) THEN <<carry>>
    ELSE <<(a[i] * k + carry) % Radix>> \o MulSmallFrom(a, k, i + 1, (a[i] * k + carry) \div Radix)

\* a * k + cin for a small k, one limb wider than a.
MulSmallWide(a, k, cin) == MulSmallFrom(a, k, 1, cin)

\* A 9-limb number is at most u64::MAX.
FitsU64(w) == w[NLimbs + 1] = 0

\* A 9-limb number is at most i64::MAX.
FitsI64(w) == w[NLimbs + 1] = 0 /\ w[NLimbs] < Radix \div 2

RECURSIVE ParseFrom(_, _, _)
\* str::parse::<i64> on a digit string, digit i onwards: acc * 10 + digit each time,
\* an error as soon as the number exceeds i64::MAX.
ParseFrom(digs, i, acc) ==
    IF i > Len(digs) THEN [ok |-> TRUE, bits |-> acc]
    ELSE LET w == MulSmallWide(acc, 10, DigitVal(digs[i]))
         IN  IF FitsI64(w) THEN ParseFrom(digs, i + 1, SubSeq(w, 1, NLimbs))
             ELSE [ok |-> FALSE, bits |-> <<>>]

ParseI64(digs) == ParseFrom(digs, 1, Zero64)

\* a divided by 10: quotient and remainder.
DivMod10(a) ==
    LET r[i \in 1..(NLimbs + 1)] == IF i = NLimbs + 1 THEN 0 ELSE (r[i + 1] * Radix + a[i]) % 10
    IN  [q |-> [i \in 1..NLimbs |-> (r[i + 1] * Radix + a[i]) \div 10], r |-> r[1]]

RECURSIVE DecDigits(_)
DecDigits(a) ==
    IF a = Zero64 THEN <<>>
    ELSE LET dm == DivMod10(a) IN DecDigits(dm.q) \o <<DigitChars[dm.r + 1]>>

\* The decimal digits of the pattern read as an unsigned number.
ToDecimal(a) == IF a = Zero64 THEN <<"0">> ELSE DecDigits(a)

\* Display of an i64 ("{}"): the pattern read as a signed number.
FormatI64(a) == IF IsNeg(a) THEN <<"-">> \o ToDecimal(Neg64(a)) ELSE ToDecimal(a)

(***************************************************************************)
(* The backend: value handles and the builder's binary operations.         *)
(*                                                                         *)
(* A handle is an LLVM value: `const` says whether it is a constant,       *)
(* `bits` is the 64-bit pattern it denotes.  The builder of               *)
(* Context::create_builder folds an operation whose operands are both      *)
(* constants into a constant, and constants of one context are unique, so  *)
(* two handles are equal exactly when they are the same constant.          *)
(***************************************************************************)
NoHandle == [const |-> FALSE, bits |-> <<>>]

\* i64_type.const_int(n, false)
const_int(bits) == [const |-> TRUE, bits |-> bits]

zero_val == const_int(Zero64)

is_const(h) == h.const

build_int_add(lhs, rhs) == [const |-> lhs.const /\ rhs.const, bits |-> WrapAdd(lhs.bits, rhs.bits)]

\* A subtraction the builder does not fold: its result is an instruction's value.
build_int_sub_unfolded(lhs, rhs) == [const |-> FALSE, bits |-> WrapSub(lhs.bits, rhs.bits)]

build_int_sub(lhs, rhs) == [const |-> lhs.const /\ rhs.const, bits |-> WrapSub(lhs.bits, rhs.bits)]

build_int_mul(lhs, rhs) == [const |-> lhs.const /\ rhs.const, bits |-> WrapMul(lhs.bits, rhs.bits)]

\* The division built as a signed division (build_int_signed_div).
build_int_signed_div(lhs, rhs) ==
    [const |-> lhs.const /\ rhs.const, bits |-> SDiv64(lhs.bits, rhs.bits)]

\* Reached with a non-zero divisor only (DivisorIsZero is tested first).
build_int_unsigned_div(lhs, rhs) ==
    [const |-> lhs.const /\ rhs.const, bits |-> UDiv64(lhs.bits, rhs.bits)]

\* No zero check before a division is built.
DivisorUnchecked(rhs) == FALSE

\* The zero check of parse_term: rhs.is_const() && rhs == zero_val.
DivisorIsZero(rhs) == is_const(rhs) /\ rhs = zero_val

\* The label prefix of each operator's instruction.
TmpPrefix(op) ==
    CASE op = "+" -> "add_tmp" [] op = "-" -> "sub_tmp" [] op = "*" -> "mul_tmp" [] op = "/" -> "div_tmp"

\* gen_tmp_name: the label made from the counter, and the counter after it.
gen_tmp_name(prefix, counter) == [name |-> <<prefix, counter>>, next |-> counter + 1]

(***************************************************************************)
(* Results and error messages.                                             *)
(***************************************************************************)
E_END == "SyntaxError: unexpected end of expression"

E_PAREN == "SyntaxError: missing closing parenthesis ')'"

E_CHAR == "SyntaxError: invalid character"

E_VALUE == "ValueError: invalid literal for int() with base 10"

E_ZERO == "ZeroDivisionError: division by zero"

E_TRAIL_INVALID == "SyntaxError: invalid trailing character"

E_TRAIL_INCOMPLETE == "SyntaxError: incomplete expression, trailing character"

E_ENGINE == "RuntimeError: LLVM initialization failed"

E_RETURN == "RuntimeError: failed to generate return instruction"

E_VERIFY == "RuntimeError: invalid LLVM IR generated"

E_JIT == "RuntimeError: JIT compilation failed"

\* Result<IntValue, Box<dyn Error>> of the three parse functions.
OkH(h) == [ok |-> TRUE, h |-> h, msg |-> "", arg |-> <<>>]

ErrH(msg, arg) == [ok |-> FALSE, h |-> NoHandle, msg |-> msg, arg |-> arg]

\* Result<i64, Box<dyn Error>> of run.
OkV(bits) == [ok |-> TRUE, val |-> bits, msg |-> "", arg |-> <<>>]

ErrV(msg, arg) == [ok |-> FALSE, val |-> <<>>, msg |-> msg, arg |-> arg]

NoResult == ErrV("", <<>>)

\* What the driver prints for a result: the number, or the error's message.
Display(res) == IF res.ok THEN FormatI64(res.val) ELSE <<res.msg>> \o res.arg

(***************************************************************************)
(* State.                                                                  *)
(***************************************************************************)
VARIABLES
    stdin,        \* the lines standard input still holds
    fault,        \* the backend operation that fails in this session, or "none"
    pc,           \* where the driver and run are
    cur,          \* expr_str: the line run was called with
    expr,         \* the peekable iterator: the characters not yet consumed
    stack,        \* the call frames of the three parse functions, innermost last
    ret,          \* the Result the last parse function returned
    tmp_counter,  \* Calculator.tmp_counter
    emitted,      \* the builder's binary operations of this run, with their labels
    func,         \* the function "main": its return value once emitted
    stages,       \* the steps of run completed so far, in order
    result,       \* what run returned
    out           \* the driver's output: one entry for each line it ran

vars == <<stdin, fault, pc, cur, expr, stack, ret, tmp_counter, emitted, func, stages, result, out>>

\* A line on standard input that read_line cannot read (not valid UTF-8).
IoError == <<"<io error>">>

Faults == {"none", "engine", "return", "verify", "jit"}

Frame(fn, st, value, op) == [fn |-> fn, st |-> st, value |-> value, op |-> op]

Top == stack[Len(stack)]

Callers == SubSeq(stack, 1, Len(stack) - 1)

\* Calculator::new and the driver's state before its first prompt.
StartState ==
    /\ pc = "prompt"
    /\ cur = <<>>
    /\ expr = <<>>
    /\ stack = <<>>
    /\ ret = ErrH("", <<>>)
    /\ tmp_counter = 0
    /\ emitted = <<>>
    /\ func = NoHandle
    /\ stages = <<>>
    /\ result = NoResult
    /\ out = <<>>

(***************************************************************************)
(* The driver loop of main.                                                *)
(***************************************************************************)
\* The counter left as the last run left it.
KeepCounter(counter) == counter

\* calc.tmp_counter = 0, before every run.
ResetCounter(counter) == 0

\* One iteration of the loop up to the call of run: read a line; leave on a read
\* error or an exit word, go round again on an empty line (at end of input
\* read_line returns an empty line), else reset the counter and call run.
ReadLine ==
    /\ pc = "prompt"
    /\ IF stdin = <<>>
       THEN UNCHANGED vars
       ELSE LET line == Trim(Head(stdin))
            IN  /\ stdin' = Tail(stdin)
                /\ IF Head(stdin) = IoError \/ IsExitWord(line)
                   THEN pc' = "exited" /\ UNCHANGED <<cur, tmp_counter>>
                   ELSE IF line = <<>>
                   THEN UNCHANGED <<pc, cur, tmp_counter>>
                   ELSE /\ pc' = "run"
                        /\ cur' = line
                        /\ tmp_counter' = ResetCounter(tmp_counter)
                /\ UNCHANGED <<fault, expr, stack, ret, emitted, func, stages, result, out>>

\* The match on run's result: print the value or the error, and prompt again.
PrintResult ==
    /\ pc = "print"
    /\ out' = Append(out, [line |-> cur, res |-> result, text |-> Display(result)])
    /\ pc' = "prompt"
    /\ UNCHANGED <<stdin, fault, cur, expr, stack, ret, tmp_counter, emitted, func, stages, result>>

(***************************************************************************)
(* Calculator::run, outside the parser.                                    *)
(***************************************************************************)
\* run returns res to the driver.
Return(res) == result' = res /\ pc' = "print"

\* Module, builder, engine, function and entry block are created, the iterator is
\* made over the trimmed line, and parse_expression is called.
RunSetup ==
    /\ pc = "run"
    /\ emitted' = <<>>
    /\ func' = NoHandle
    /\ stages' = <<>>
    /\ ret' = ErrH("", <<>>)
    /\ IF fault = "engine"
       THEN Return(ErrV(E_ENGINE, <<>>)) /\ UNCHANGED <<expr, stack>>
       ELSE /\ expr' = Trim(cur)
            /\ stack' = <<Frame("expression", "enter", NoHandle, "")>>
            /\ pc' = "parse"
            /\ result' = NoResult
    /\ UNCHANGED <<stdin, fault, cur, tmp_counter, out>>

\* The top-level parse_expression has returned: `?` passes an error on.
ParseReturn ==
    /\ pc = "parse" /\ stack = <<>>
    /\ IF ret.ok
       THEN pc' = "trailing" /\ stages' = Append(stages, "parse") /\ UNCHANGED result
       ELSE Return(ErrV(ret.msg, ret.arg)) /\ UNCHANGED stages
    /\ UNCHANGED <<stdin, fault, cur, expr, stack, ret, tmp_counter, emitted, func, out>>

\* The error for a character left over after the expression, as run words it.
TrailingError(c) ==
    IF ~is_valid_char(c) THEN ErrV(E_TRAIL_INVALID, <<c>>) ELSE ErrV(E_TRAIL_INCOMPLETE, <<c>>)

\* The check for leftover characters.
TrailingCheck ==
    /\ pc = "trailing"
    /\ LET rest == skip_whitespace(expr)
       IN  /\ expr' = rest
           /\ IF rest # <<>>
              THEN Return(TrailingError(Head(rest))) /\ UNCHANGED stages
              ELSE pc' = "return" /\ stages' = Append(stages, "trailing") /\ UNCHANGED result
    /\ UNCHANGED <<stdin, fault, cur, stack, ret, tmp_counter, emitted, func, out>>

\* builder.build_return(Some(&expr_value))
BuildReturn ==
    /\ pc = "return"
    /\ IF fault = "return"
       THEN Return(ErrV(E_RETURN, <<>>)) /\ UNCHANGED <<func, stages>>
       ELSE func' = ret.h /\ pc' = "verify" /\ stages' = Append(stages, "return") /\ UNCHANGED result
    /\ UNCHANGED <<stdin, fault, cur, expr, stack, ret, tmp_counter, emitted, out>>

\* A verification whose result is ignored.
VerifyIgnored ==
    /\ pc = "verify"
    /\ pc' = "jit" /\ stages' = Append(stages, "verify")
    /\ UNCHANGED <<stdin, fault, cur, expr, stack, ret, tmp_counter, emitted, func, result, out>>

\* main_func.verify(true)
VerifyFunction ==
    /\ pc = "verify"
    /\ IF fault = "verify"
       THEN Return(ErrV(E_VERIFY, <<>>)) /\ UNCHANGED stages
       ELSE pc' = "jit" /\ stages' = Append(stages, "verify") /\ UNCHANGED result
    /\ UNCHANGED <<stdin, fault, cur, expr, stack, ret, tmp_counter, emitted, func, out>>

\* engine.get_function("main")
GetFunction ==
    /\ pc = "jit"
    /\ IF fault = "jit"
       THEN Return(ErrV(E_JIT, <<>>)) /\ UNCHANGED stages
       ELSE pc' = "call" /\ stages' = Append(stages, "jit") /\ UNCHANGED result
    /\ UNCHANGED <<stdin, fault, cur, expr, stack, ret, tmp_counter, emitted, func, out>>

\* jit_func.call(): the native function returns the value of its return instruction.
CallFunction ==
    /\ pc = "call"
    /\ stages' = Append(stages, "call")
    /\ Return(OkV(func.bits))
    /\ UNCHANGED <<stdin, fault, cur, expr, stack, ret, tmp_counter, emitted, func, out>>

(***************************************************************************)
(* The parser.  A frame is one activation of a parse function: `st` is     *)
(* "enter" before its first call and "wait" while a callee runs, `value`   *)
(* its accumulator and `op` the operator whose right-hand side is awaited. *)
(***************************************************************************)
\* A peek taken for a next(): the iterator stays where it is.
Stay(chars) == chars

\* expr.next() after a successful peek: the iterator moves past one character.
Advance(chars) == IF chars = <<>> THEN chars ELSE Tail(chars)

\* The running function calls callee, and waits for it in frame `waiting`.
Call(waiting, callee) == stack' = Callers \o <<waiting, Frame(callee, "enter", NoHandle, "")>>

\* The running function returns res to its caller.
ReturnH(res) == stack' = Callers /\ ret' = res

Running(fn, st) == pc = "parse" /\ stack # <<>> /\ Top.fn = fn /\ Top.st = st

\* parse_expression, first statement: the call of parse_term.
ParseExpressionEnter ==
    /\ Running("expression", "enter")
    /\ Call(Frame("expression", "wait", NoHandle, ""), "term")
    /\ UNCHANGED <<stdin, fault, pc, cur, expr, ret, tmp_counter, emitted, func, stages, result, out>>

\* The value after the instruction for `op` is built, and its label.
BuildAdditive(op, value, rhs, counter) ==
    LET label == gen_tmp_name(TmpPrefix(op), counter)
    IN  [value |-> IF op = "+" THEN build_int_add(value, rhs) ELSE build_int_sub(value, rhs),
         label |-> label.name, counter |-> label.next]

\* parse_expression once parse_term has returned: `?` passes an error on; the
\* pending operator's instruction is built; then the loop head skips whitespace and
\* either consumes a + or - and calls parse_term again, or returns the value.
ParseExpressionLoop ==
    /\ Running("expression", "wait")
    /\ IF ~ret.ok
       THEN ReturnH(ret) /\ UNCHANGED <<expr, tmp_counter, emitted>>
       ELSE LET built == IF Top.op = ""
                         THEN [value |-> ret.h, label |-> <<>>, counter |-> tmp_counter]
                         ELSE BuildAdditive(Top.op, Top.value, ret.h, tmp_counter)
                rest  == skip_whitespace(expr)
            IN  /\ tmp_counter' = built.counter
                /\ emitted' = IF Top.op = "" THEN emitted
                              ELSE Append(emitted, [op |-> Top.op, name |-> built.label])
                /\ IF rest # <<>> /\ Head(rest) \in {"+", "-"}
                   THEN /\ expr' = Advance(rest)
                        /\ Call(Frame("expression", "wait", built.value, Head(rest)), "term")
                        /\ UNCHANGED ret
                   ELSE /\ expr' = rest
                        /\ ReturnH(OkH(built.value))
    /\ UNCHANGED <<stdin, fault, pc, cur, func, stages, result, out>>

\* parse_term, first statement: the call of parse_factor.
ParseTermEnter ==
    /\ Running("term", "enter")
    /\ Call(Frame("term", "wait", NoHandle, ""), "factor")
    /\ UNCHANGED <<stdin, fault, pc, cur, expr, ret, tmp_counter, emitted, func, stages, result, out>>

\* The value after the instruction for `op` is built, and its label; for a division
\* whose divisor is the constant zero, the error instead (no label is generated).
BuildMultiplicative(op, value, rhs, counter) ==
    IF op = "/" /\ DivisorIsZero(rhs)
    THEN [ok |-> FALSE, value |-> NoHandle, label |-> <<>>, counter |-> counter]
    ELSE LET label == gen_tmp_name(TmpPrefix(op), counter)
         IN  [ok |-> TRUE,
              value |-> IF op = "*" THEN build_int_mul(value, rhs)
                                    ELSE build_int_unsigned_div(value, rhs),
              label |-> label.name, counter |-> label.next]

\* parse_term once parse_factor has returned: as parse_expression, with * and / and
\* the zero check before a division is built.
ParseTermLoop ==
    /\ Running("term", "wait")
    /\ IF ~ret.ok
       THEN ReturnH(ret) /\ UNCHANGED <<expr, tmp_counter, emitted>>
       ELSE LET built == IF Top.op = ""
                         THEN [ok |-> TRUE, value |-> ret.h, label |-> <<>>, counter |-> tmp_counter]
                         ELSE BuildMultiplicative(Top.op, Top.value, ret.h, tmp_counter)
                rest  == skip_whitespace(expr)
            IN  IF ~built.ok
                THEN ReturnH(ErrH(E_ZERO, <<>>)) /\ UNCHANGED <<expr, tmp_counter, emitted>>
                ELSE /\ tmp_counter' = built.counter
                     /\ emitted' = IF Top.op = "" THEN emitted
                                   ELSE Append(emitted, [op |-> Top.op, name |-> built.label])
                     /\ IF rest # <<>> /\ Head(rest) \in {"*", "/"}
                        THEN /\ expr' = Advance(rest)
                             /\ Call(Frame("term", "wait", built.value, Head(rest)), "factor")
                             /\ UNCHANGED ret
                        ELSE /\ expr' = rest
                             /\ ReturnH(OkH(built.value))
    /\ UNCHANGED <<stdin, fault, pc, cur, func, stages, result, out>>

\* The integer production: the digit run is consumed and parsed.
ParseLiteral(digits) ==
    LET num == ParseI64(digits)
    IN  IF num.ok THEN OkH(const_int(num.bits)) ELSE ErrH(E_VALUE, digits)

\* parse_factor up to its first return or call: whitespace is skipped and the next
\* character decides: end of input and any character that starts no factor are
\* errors, ( is consumed and parse_expression called, a digit starts a literal.
ParseFactorStart ==
    /\ Running("factor", "enter")
    /\ LET rest == skip_whitespace(expr)
       IN  IF rest = <<>>
           THEN expr' = rest /\ ReturnH(ErrH(E_END, <<>>))
           ELSE IF Head(rest) = "("
           THEN /\ expr' = Advance(rest)
                /\ Call(Frame("factor", "wait", NoHandle, ""), "expression")
                /\ UNCHANGED ret
           ELSE IF IsAsciiDigit(Head(rest))
           THEN /\ expr' = SubSeq(rest, Len(DigitRun(rest)) + 1, Len(rest))
                /\ ReturnH(ParseLiteral(DigitRun(rest)))
           ELSE expr' = rest /\ ReturnH(ErrH(E_CHAR, <<Head(rest)>>))
    /\ UNCHANGED <<stdin, fault, pc, cur, tmp_counter, emitted, func, stages, result, out>>

\* The end of the line taken for a closing parenthesis.
ClosesOrEnds(rest) == rest = <<>> \/ Head(rest) = ")"

\* expr.peek() == Some(&')')
ClosesParen(rest) == rest # <<>> /\ Head(rest) = ")"

\* parse_factor once the parenthesised parse_expression has returned: `?` passes an
\* error on; whitespace is skipped and a ) is required, consumed, and the
\* whitespace after it skipped.
ParseFactorClose ==
    /\ Running("factor", "wait")
    /\ IF ~ret.ok
       THEN ReturnH(ret) /\ UNCHANGED expr
       ELSE LET rest == skip_whitespace(expr)
            IN  IF ~ClosesParen(rest)
                THEN expr' = rest /\ ReturnH(ErrH(E_PAREN, <<>>))
                ELSE expr' = skip_whitespace(Advance(rest)) /\ ReturnH(OkH(ret.h))
    /\ UNCHANGED <<stdin, fault, pc, cur, tmp_counter, emitted, func, stages, result, out>>

Next ==
    \/ ReadLine
    \/ PrintResult
    \/ RunSetup
    \/ ParseExpressionEnter
    \/ ParseExpressionLoop
    \/ ParseTermEnter
    \/ ParseTermLoop
    \/ ParseFactorStart
    \/ ParseFactorClose
    \/ ParseReturn
    \/ TrailingCheck
    \/ BuildReturn
    \/ VerifyFunction
    \/ GetFunction
    \/ CallFunction

(***************************************************************************)
(* Inputs.  Each specification draws the session's standard input from a   *)
(* bounded family of lines and runs the same driver and compiler on it.    *)
(***************************************************************************)
\* i64::MAX and i64::MAX + 1 in decimal.
I64Max == <<"9", "2", "2", "3", "3", "7", "2", "0", "3", "6", "8", "5", "4", "7", "7", "5", "8", "0", "7">>

I64Over == <<"9", "2", "2", "3", "3", "7", "2", "0", "3", "6", "8", "5", "4", "7", "7", "5", "8", "0", "8">>

\* Longest line, in pieces, of the specifications Spec, SpecFault and SpecWs.
MaxPieces == 4

\* Most operators in a line of SpecEval and SpecZero.
MaxOps == 2

\* Longest inserted whitespace run of SpecWs.
MaxGap == 2

\* Most lines in a session of SpecSession.
MaxLines == 3

\* The pieces lines are put together from: literals (a zero, the largest that fits,
\* the smallest that does not), operators, parentheses, a blank, an invalid character.
Pieces == {<<"0">>, I64Max, I64Over, <<"+">>, <<"/">>, <<"(">>, <<")">>, <<" ">>, <<"x">>}

RECURSIVE PieceLines(_, _)
\* The lines made of at most n pieces of P.
PieceLines(P, n) ==
    IF n = 0 THEN {<<>>}
    ELSE LET shorter == PieceLines(P, n - 1)
         IN  shorter \cup {s \o piece : s \in shorter, piece \in P}

Operators == {"+", "-", "*", "/"}

RECURSIVE Exprs(_, _)
\* The lines that are expressions with exactly n operators over the literals L,
\* every operand that has an operator of its own written with or without
\* parentheses around it.
Exprs(L, n) ==
    IF n = 0 THEN L
    ELSE LET Operands(k) == Exprs(L, k) \cup
                            (IF k = 0 THEN {} ELSE {<<"(">> \o e \o <<")">> : e \in Exprs(L, k)})
         IN  UNION {{l \o <<op>> \o r : l \in Operands(i), r \in Operands(n - 1 - i), op \in Operators}
                    : i \in 0..(n - 1)}

ExprsUpTo(L, n) == UNION {Exprs(L, k) : k \in 0..n}

\* One session of one line.
OneLine(lines) == {<<line>> : line \in lines}

InitWith(inputs, faults) == stdin \in inputs /\ fault \in faults /\ StartState

\* Any line of at most MaxPieces pieces, on a backend that does not fail.
Init == InitWith(OneLine(PieceLines(Pieces, MaxPieces)), {"none"})

Spec == Init /\ [][Next]_vars

\* Any line of fewer pieces, on a backend where one operation may fail.
InitFault == InitWith(OneLine(PieceLines(Pieces, MaxPieces - 1)), Faults)

SpecFault == InitFault /\ [][Next]_vars

\* Expressions over a small literal and the largest one.
InitEval == InitWith(OneLine(ExprsUpTo({<<"3">>, I64Max}, MaxOps)), {"none"})

SpecEval == InitEval /\ [][Next]_vars

\* Expressions over zero and a small literal.
InitZero == InitWith(OneLine(ExprsUpTo({<<"0">>, <<"3">>}, MaxOps)), {"none"})

SpecZero == InitZero /\ [][Next]_vars

\* A line, and the same line with a run of blanks or tabs of at most MaxGap
\* characters inserted at a token boundary (anywhere but between two digits).
Gaps == UNION {{[i \in 1..n |-> " "], [i \in 1..n |-> "\t"]} : n \in 1..MaxGap}

Boundaries(line) ==
    {at \in 0..Len(line) : ~(at >= 1 /\ at < Len(line) /\ IsAsciiDigit(line[at]) /\ IsAsciiDigit(line[at + 1]))}

InsertAt(line, at, gap) == SubSeq(line, 1, at) \o gap \o SubSeq(line, at + 1, Len(line))

WsPieces == {<<"0">>, <<"7">>, <<"+">>, <<"/">>, <<"(">>, <<")">>, <<"x">>}

WsSessions(lines) ==
    UNION {{<<line, InsertAt(line, at, gap)>> : at \in Boundaries(line), gap \in Gaps} : line \in lines}

InitWs == InitWith(WsSessions(PieceLines(WsPieces, MaxPieces - 1)), {"none"})

SpecWs == InitWs /\ [][Next]_vars

\* Sessions of at most MaxLines lines: the scenarios "1+1", "2+2", "2 + 3 * 4",
\* "(2 + 3) * 4", "5 / 0", "2 +", an empty line, an exit word and a read error.
SessionLines ==
    {<<"1", "+", "1">>, <<"2", "+", "2">>,
     <<"2", " ", "+", " ", "3", " ", "*", " ", "4">>,
     <<"(", "2", " ", "+", " ", "3", ")", " ", "*", " ", "4">>,
     <<"5", " ", "/", " ", "0">>, <<"2", " ", "+">>,
     <<" ">>, <<"Q", "u", "i", "t">>, IoError}

RECURSIVE Sessions(_, _)
Sessions(lines, n) ==
    IF n = 0 THEN {<<>>}
    ELSE LET shorter == Sessions(lines, n - 1)
         IN  shorter \cup {Append(session, line) : session \in shorter, line \in lines}

InitSession == InitWith(Sessions(SessionLines, MaxLines), {"none", "verify"})

SpecSession == InitSession /\ [][Next]_vars

(***************************************************************************)
(* The grammar's meaning, stated on the token sequence of a line and        *)
(* independently of the parser: an expression splits at its last + or -     *)
(* outside parentheses, else at its last * or / outside parentheses, else   *)
(* it is a literal or a parenthesised expression.                          *)
(***************************************************************************)
RECURSIVE Tokens(_)
Tokens(chars) ==
    IF chars = <<>> THEN <<>>
    ELSE IF IsWhitespace(Head(chars)) THEN Tokens(Tail(chars))
    ELSE IF IsAsciiDigit(Head(chars))
    THEN <<DigitRun(chars)>> \o Tokens(SubSeq(chars, Len(DigitRun(chars)) + 1, Len(chars)))
    ELSE <<(<<Head(chars)>>)>> \o Tokens(Tail(chars))

Depth(ts, i) ==
    Cardinality({j \in 1..(i - 1) : ts[j] = <<"(">>}) - Cardinality({j \in 1..(i - 1) : ts[j] = <<")">>})

TopLevel(ts, ops) == {i \in 1..Len(ts) : ts[i] \in ops /\ Depth(ts, i) = 0}

Last(S) == CHOOSE i \in S : \A j \in S : j <= i

IllFormed == [wf |-> FALSE, bits |-> Zero64, divz |-> FALSE]

RefArith(op, a, b) ==
    CASE op = <<"+">> -> WrapAdd(a, b)
      [] op = <<"-">> -> WrapSub(a, b)
      [] op = <<"*">> -> WrapMul(a, b)
      [] op = <<"/">> -> UDiv64(a, b)

\* wf: the tokens form an expression of the grammar with literals in the i64 range;
\* divz: some division in it has a divisor of value zero; bits: its value otherwise.
RefCombine(op, l, r) ==
    IF ~(l.wf /\ r.wf) THEN IllFormed
    ELSE IF l.divz \/ r.divz \/ (op = <<"/">> /\ r.bits = Zero64)
    THEN [wf |-> TRUE, bits |-> Zero64, divz |-> TRUE]
    ELSE [wf |-> TRUE, bits |-> RefArith(op, l.bits, r.bits), divz |-> FALSE]

RECURSIVE RefEval(_)
RefEval(ts) ==
    LET add == TopLevel(ts, {<<"+">>, <<"-">>})
        mul == TopLevel(ts, {<<"*">>, <<"/">>})
        at  == IF add # {} THEN Last(add) ELSE Last(mul)
    IN  IF ts = <<>> THEN IllFormed
        ELSE IF add # {} \/ mul # {}
        THEN RefCombine(ts[at], RefEval(SubSeq(ts, 1, at - 1)), RefEval(SubSeq(ts, at + 1, Len(ts))))
        ELSE IF Len(ts) = 1
        THEN IF IsAsciiDigit(ts[1][1]) /\ ParseI64(ts[1]).ok
             THEN [wf |-> TRUE, bits |-> ParseI64(ts[1]).bits, divz |-> FALSE]
             ELSE IllFormed
        ELSE IF ts[1] = <<"(">> /\ ts[Len(ts)] = <<")">>
        THEN RefEval(SubSeq(ts, 2, Len(ts) - 1))
        ELSE IllFormed

\* The characters of the line the parser has consumed so far.
Consumed == SubSeq(Trim(cur), 1, Len(Trim(cur)) - Len(expr))

(***************************************************************************)
(* Claims.                                                                 *)
(***************************************************************************)
\* C1: for every well-formed line in which no division has a zero divisor, and
\* with a working backend, run returns the value of the expression under the
\* usual precedence and left associativity, in wrapping 64-bit arithmetic with
\* unsigned division of the bit patterns.
C1_Value ==
    (pc = "print" /\ fault = "none") =>
        LET ref == RefEval(Tokens(cur))
        IN  (ref.wf /\ ~ref.divz) => result = OkV(ref.bits)

\* (3 - 9223372036854775807) / 3: a negative left operand divided as unsigned.
C1_Witness ==
    /\ pc = "print"
    /\ cur = <<"(", "3", "-">> \o I64Max \o <<")", "/", "3">>
    /\ result.ok
    /\ Display(result) = <<"3", "0", "7", "4", "4", "5", "7", "3", "4", "5", "6", "1", "8", "2", "5", "8", "6", "0", "4">>

\* C2: run is all-or-nothing and ordered: the steps it completes are always an
\* initial part of parse, trailing check, return instruction, verification, JIT
\* lookup, call; a run that returns a value completed them all, a run that
\* returns an error stopped at the step the error belongs to, the step that failed
\* and every later one was never performed, and the function is called only after
\* the whole line was parsed and consumed and the verified function returns the
\* parsed value.
FullRun == <<"parse", "trailing", "return", "verify", "jit", "call">>

IsPrefix(s, t) == Len(s) <= Len(t) /\ SubSeq(t, 1, Len(s)) = s

StepsBefore(msg) ==
    CASE msg \in {E_ENGINE, E_END, E_PAREN, E_CHAR, E_VALUE, E_ZERO} -> 0
      [] msg \in {E_TRAIL_INVALID, E_TRAIL_INCOMPLETE} -> 1
      [] msg = E_RETURN -> 2
      [] msg = E_VERIFY -> 3
      [] msg = E_JIT -> 4

C2_AllOrNothing ==
    /\ IsPrefix(stages, FullRun)
    /\ \A i \in 1..Len(stages) : stages[i] # fault
    /\ fault = "engine" => stages = <<>>
    /\ pc = "print" => IF result.ok THEN stages = FullRun
                                    ELSE Len(stages) = StepsBefore(result.msg)
    /\ Len(stages) = Len(FullRun) =>
           /\ result.ok /\ ret.ok /\ func = ret.h /\ result.val = func.bits
           /\ expr = <<>> /\ stack = <<>>

\* A line that parses and passes the trailing check, with a function that fails
\* verification: the error is returned and nothing was executed.
C2_Witness ==
    /\ pc = "print"
    /\ fault = "verify"
    /\ result = ErrV(E_VERIFY, <<>>)
    /\ stages = <<"parse", "trailing", "return">>

\* C3: when the right-hand operand of a / is the constant zero, parse_term
\* returns the division-by-zero error at once: no division is built and no label
\* generated for it; and run returns that error without completing any step.
C3_Step ==
    (Running("term", "wait") /\ ret.ok /\ Top.op = "/" /\ ret.h = const_int(Zero64)) =>
        /\ ret' = ErrH(E_ZERO, <<>>)
        /\ stack' = Callers
        /\ emitted' = emitted /\ tmp_counter' = tmp_counter /\ expr' = expr

C3_ZeroDivisor ==
    /\ [][C3_Step]_vars
    /\ [](ret = ErrH(E_ZERO, <<>>) =>
            /\ stages = <<>>
            /\ pc \in {"parse", "print", "prompt", "exited"}
            /\ pc # "parse" => result = ErrV(E_ZERO, <<>>))

\* 3/0 has failed with the division-by-zero error, and no operation was built.
C3_Witness ==
    /\ pc = "print"
    /\ cur = <<"3", "/", "0">>
    /\ result = ErrV(E_ZERO, <<>>)
    /\ emitted = <<>>
    /\ stages = <<>>

\* The right-hand operand just parsed is a parenthesised expression.
RhsParenthesised == Consumed # <<>> /\ TrimEnd(Consumed)[Len(TrimEnd(Consumed))] = ")"

C5_Whitespace ==
    /\ \A i, j \in DOMAIN out :
           Tokens(out[i].line) = Tokens(out[j].line) =>
               out[i].res = out[j].res /\ out[i].text = out[j].text
    /\ (stdin = <<>> /\ pc = "prompt") => Len(out) # 1

\* 7+7 and the same line with two tabs before the + have both evaluated to 14.
C5_Witness ==
    /\ Len(out) = 2
    /\ out[1].line = <<"7", "+", "7">>
    /\ out[2].line = <<"7", "\t", "\t", "+", "7">>
    /\ out[1].res = OkV(FromNat(14))
    /\ out[2].text = <<"1", "4">>

\* C6: a run whose parse succeeded fails at the trailing check exactly when a
\* non-whitespace character is left: with "incomplete expression" when the
\* character is a digit, an operator or a parenthesis, with "invalid trailing
\* character" otherwise, the character being named in the error; the return
\* instruction is reached only when the whole line was consumed.
DecimalDigits == {"0", "1", "2", "3", "4", "5", "6", "7", "8", "9"}

ExpressionChars == DecimalDigits \cup {"+", "-", "*", "/", "(", ")"}

C6_Trailing ==
    /\ (pc = "print" /\ stages = <<"parse">>) =>
           /\ expr # <<>> /\ ~IsWhitespace(Head(expr))
           /\ result = IF Head(expr) \in ExpressionChars
                       THEN ErrV(E_TRAIL_INCOMPLETE, <<Head(expr)>>)
                       ELSE ErrV(E_TRAIL_INVALID, <<Head(expr)>>)
    /\ Len(stages) >= 2 => expr = <<>>
    /\ (pc = "print" /\ result.ok) => expr = <<>>

\* "0)" has parsed 0 and failed on the leftover parenthesis.
C6_Witness ==
    /\ pc = "print"
    /\ cur = <<"0", ")">>
    /\ stages = <<"parse">>
    /\ result = ErrV(E_TRAIL_INCOMPLETE, <<")">>)

RECURSIVE Unmatched(_, _)
\* The number of ( in chars that no later ) closes, after `open` unclosed ones.
Unmatched(chars, open) ==
    IF chars = <<>> THEN open
    ELSE IF Head(chars) = "(" THEN Unmatched(Tail(chars), open + 1)
    ELSE IF Head(chars) = ")" /\ open > 0 THEN Unmatched(Tail(chars), open - 1)
    ELSE Unmatched(Tail(chars), open)

HasUnmatchedOpen(line) == Unmatched(line, 0) > 0

\* C7 as stated: every line that contains an unmatched ( fails with the
\* missing-closing-parenthesis error.
C7_Unmatched ==
    (pc = "print" /\ HasUnmatchedOpen(cur)) => result = ErrV(E_PAREN, <<>>)

\* C7, amended: every line that contains an unmatched ( fails; it fails with the
\* missing-closing-parenthesis error when parse_factor has consumed a ( and
\* parsed the expression after it, and the next non-whitespace character is not
\* a ) or the line has ended (so for every line that is a ( followed by a
\* complete expression); an error inside the parentheses is returned as it is.
C7_Step ==
    (Running("factor", "wait") /\ stack' # stack) =>
        LET rest == skip_whitespace(expr)
        IN  /\ stack' = Callers
            /\ IF ~ret.ok THEN ret' = ret
               ELSE IF rest = <<>> \/ Head(rest) # ")" THEN ret' = ErrH(E_PAREN, <<>>)
               ELSE ret' = OkH(ret.h) /\ Len(expr') < Len(expr)

C7_MissingParen ==
    /\ [][C7_Step]_vars
    /\ []((pc = "print" /\ HasUnmatchedOpen(cur)) => ~result.ok)
    /\ []((pc = "print" /\ ret = ErrH(E_PAREN, <<>>)) => result = ErrV(E_PAREN, <<>>))
    /\ []((pc = "print" /\ cur # <<>> /\ Head(cur) = "(") =>
            LET inner == RefEval(Tail(Tokens(cur)))
            IN  (inner.wf /\ ~inner.divz) => result = ErrV(E_PAREN, <<>>))

\* "(0+0" has failed with the missing-closing-parenthesis error.
C7_Witness ==
    /\ pc = "print"
    /\ cur = <<"(", "0", "+", "0">>
    /\ result = ErrV(E_PAREN, <<>>)

\* The digits at the front of chars up to the first character that is no digit.
LeadingDigits(chars) ==
    LET n == CHOOSE k \in 0..Len(chars) :
                 /\ \A i \in 1..k : chars[i] \in DecimalDigits
                 /\ k < Len(chars) => chars[k + 1] \notin DecimalDigits
    IN  SubSeq(chars, 1, n)

RECURSIVE StripZeros(_)
StripZeros(digs) == IF Len(digs) > 1 /\ Head(digs) = "0" THEN StripZeros(Tail(digs)) ELSE digs

\* Of two decimal numerals of one length, a denotes the greater number.
DecGreater(a, b) ==
    \E i \in 1..Len(a) : DigitVal(a[i]) > DigitVal(b[i]) /\ \A j \in 1..(i - 1) : a[j] = b[j]

\* The numeral denotes a number above 2^63 - 1.
ExceedsI64(digs) ==
    LET s == StripZeros(digs)
    IN  Len(s) > Len(I64Max) \/ (Len(s) = Len(I64Max) /\ DecGreater(s, I64Max))

\* C8: when parse_factor meets a digit, it consumes the whole run of digits; a
\* run that denotes a number above 2^63-1 makes it return the value error naming
\* the run, and run then fails with that error; any other run yields the
\* constant of exactly that number.
C8_Step ==
    (Running("factor", "enter") /\ skip_whitespace(expr) # <<>> /\ IsAsciiDigit(Head(skip_whitespace(expr)))) =>
        LET rest   == skip_whitespace(expr)
            digits == LeadingDigits(rest)
        IN  /\ expr' = SubSeq(rest, Len(digits) + 1, Len(rest))
            /\ stack' = Callers
            /\ IF ExceedsI64(digits)
               THEN ret' = ErrH(E_VALUE, digits)
               ELSE /\ ret'.ok /\ ret'.h.const
                    /\ ~IsNeg(ret'.h.bits)
                    /\ ToDecimal(ret'.h.bits) = StripZeros(digits)

C8_Literal ==
    /\ [][C8_Step]_vars
    /\ []((pc = "print" /\ ret.msg = E_VALUE) => result = ErrV(E_VALUE, ret.arg))
    /\ []((pc = "print" /\ Tokens(cur) # <<>> /\ Len(Tokens(cur)) = 1 /\ IsAsciiDigit(cur[1])) =>
            IF ExceedsI64(cur) THEN result = ErrV(E_VALUE, cur)
            ELSE result.ok /\ Display(result) = StripZeros(cur))

\* 9223372036854775808 alone has failed with the value error.
C8_Witness ==
    /\ pc = "print"
    /\ cur = I64Over
    /\ result = ErrV(E_VALUE, I64Over)

\* C9: the label counter is zero whenever run starts, so the labels of one run
\* are numbered from zero and pairwise distinct, and a line has the same outcome
\* wherever it stands in the session: the outcome it has as the first line, on a
\* fresh calculator.
C9_Sessions ==
    /\ pc = "run" => tmp_counter = 0
    /\ \A i, j \in DOMAIN emitted : emitted[i].name = emitted[j].name => i = j
    /\ \A i \in DOMAIN emitted : emitted[i].name[2] = i - 1
    /\ \A i, j \in DOMAIN out :
           out[i].line = out[j].line => out[i].res = out[j].res /\ out[i].text = out[j].text

\* "2 + 3 * 4" has run a second time in one session: 14 both times, with the labels
\* mul_tmp_0 and add_tmp_1.
C9_Witness ==
    /\ pc = "print"
    /\ Len(out) = 1
    /\ out[1].line = cur
    /\ out[1].text = <<"1", "4">>
    /\ result = out[1].res
    /\ emitted = <<[op |-> "*", name |-> <<"mul_tmp", 0>>], [op |-> "+", name |-> <<"add_tmp", 1>>]>>

IsSuffix(s, t) == Len(s) <= Len(t) /\ SubSeq(t, Len(t) - Len(s) + 1, Len(t)) = s

\* A bound on the steps a frame has left before the next character is consumed.
Weight(frame) ==
    IF frame.st = "wait" THEN 1
    ELSE CASE frame.fn = "factor" -> 1 [] frame.fn = "term" -> 3 [] frame.fn = "expression" -> 5

RECURSIVE Rank(_, _)
Rank(chars, frames) ==
    IF frames = <<>> THEN 6 * Len(chars) ELSE Weight(Head(frames)) + Rank(chars, Tail(frames))

\* C10: parsing terminates and the cursor only moves forward: every step of the
\* parser leaves a suffix of the unconsumed input and lowers a rank bounded by
\* the input's length; a loop iteration of parse_expression or parse_term
\* consumes its operator before it calls down, and parse_factor calls
\* parse_expression only after consuming a (.
C10_Step ==
    (pc = "parse" /\ stack # <<>>) =>
        /\ IsSuffix(expr', expr)
        /\ Rank(expr', stack') < Rank(expr, stack)
        /\ (Top.st = "wait" /\ Len(stack') > Len(stack)) =>
               /\ Len(expr') < Len(expr)
               /\ expr[Len(expr) - Len(expr')] \in Operators
        /\ (Top.fn = "factor" /\ Len(stack') > Len(stack)) =>
               /\ Len(expr') < Len(expr)
               /\ expr[Len(expr) - Len(expr')] = "("

C10_Progress == [][C10_Step]_vars /\ [](pc = "parse" => Rank(expr, stack) <= 6 * Len(cur) + 5)

\* "((0" is three frames into its second parenthesis, two characters consumed.
C10_Witness ==
    /\ pc = "parse"
    /\ cur = <<"(", "(", "0">>
    /\ expr = <<"0">>
    /\ Len(stack) = 7
    /\ Top = Frame("expression", "enter", NoHandle, "")

=============================================================================
